---- MODULE Spec2Model ----
(***************************************************************************)
(* Model of the document-scan editor (ImageCropper, src/unnamed/part_005), *)
(* of the part of App.tsx that opens it and receives its result, of the    *)
(* control flow of warpPerspective (src/unnamed/part_002) and of the retry *)
(* loop of extractWorkerInfo (src/unnamed/part_001).                       *)
(*                                                                         *)
(* React state is modelled at the granularity of one event handler plus    *)
(* the re-render (and effects) it triggers.  Closures that outlive a       *)
(* render are modelled by what they captured: the resize listener keeps    *)
(* the `points` of the render whose effect installed it (effectPoints),    *)
(* and a running handleProcessAndSave keeps the corner list, imageSrc and  *)
(* onSave (hence App's editingImage) of the render in which Confirm was    *)
(* clicked (a record of jobs).                                             *)
(*                                                                         *)
(* JavaScript numbers are binary floating point, rounded to nearest, ties  *)
(* to even, after every operation.  The model keeps that rounding rule and *)
(* narrows the significand from 53 bits to MantBits bits so that values    *)
(* fit TLC's integers; a number is <<m, e>>, meaning m * 2^e, with m odd   *)
(* (or <<0, 0>> for zero).  All inputs are integers below 2^MantBits.      *)
(***************************************************************************)
EXTENDS Integers, Sequences, FiniteSets, TLC

VARIABLES
    workers,            \* App: workers[id][field], the stored document images
    editingImage,       \* App: NoEdit or [workerId, field, src]
    session,            \* number of ImageCropper instances mounted so far
    container,          \* containerRef.current: clientWidth/Height, rect left/top
    decode,             \* the editor's own image load: "none", "pending", "ok", "failed"
    image,              \* ImageCropper.image: NoImage or <<naturalWidth, naturalHeight>>
    points,             \* ImageCropper.points
    displayedImgDims,   \* ImageCropper.displayedImgDims
    draggingPointIndex, \* ImageCropper.draggingPointIndex: NoDrag or 0..3
    isProcessing,       \* ImageCropper.isProcessing
    effectPoints,       \* `points` as captured by the layout effect's closure
    jobs,               \* the handleProcessAndSave invocations started so far
    cancelled,          \* history: sessions closed by the cancel button
    dragged,            \* history: a pointer-move has set a point in this session
    events,             \* number of events handled so far (bounded)
    warp,               \* WarpSpec: one warpPerspective call, its locals and result
    extract             \* ExtractSpec: one extractWorkerInfo call

vars == <<workers, editingImage, session, container, decode, image, points,
          displayedImgDims, draggingPointIndex, isProcessing, effectPoints,
          jobs, cancelled, dragged, events, warp, extract>>

----------------------------------------------------------------------------
(* Bounds of the model *)

\* bits of the significand of a number
MantBits == 8
\* length of the runs explored: events (handler or callback runs) per run
MaxEvents == 7
\* LayoutSpec: the container leaves 1..MaxAvail pixels each way inside the
\* padding, and the image is 1..MaxImage pixels each way
MaxAvail == 12
MaxImage == 6
\* WarpSpec: the source image is WarpSide + 1 pixels wide and WarpSide high,
\* and each corner lies within one column of its side of the image (the two
\* right corners in the same column) and within MaxSkew rows of its top or
\* bottom
WarpSide == 4
MaxSkew == 2

----------------------------------------------------------------------------
(* Floating point: round to nearest, ties to even, MantBits significant bits *)

Pow2(k) == 2 ^ k

RECURSIVE StripZeros(_, _)
StripZeros(m, e) ==
    IF m = 0 THEN <<0, 0>>
    ELSE IF m % 2 = 0 THEN StripZeros(m \div 2, e + 1)
    ELSE <<m, e>>

\* the float nearest to (a / d) * 2^e, for a > 0 and d > 0
RECURSIVE RoundPos(_, _, _)
RoundPos(a, d, e) ==
    IF a >= d * Pow2(MantBits) THEN RoundPos(a, 2 * d, e + 1)
    ELSE IF a < d * Pow2(MantBits - 1) THEN RoundPos(2 * a, d, e - 1)
    ELSE LET q == a \div d
             r == a % d
             up == (2 * r > d) \/ (2 * r = d /\ q % 2 = 1)
         IN  StripZeros(IF up THEN q + 1 ELSE q, e)

FNeg(x) == <<0 - x[1], x[2]>>

Round(n, d, e) ==
    IF n = 0 THEN <<0, 0>>
    ELSE IF n > 0 THEN RoundPos(n, d, e)
    ELSE FNeg(RoundPos(0 - n, d, e))

FromInt(n) == Round(n, 1, 0)

MinExp(x, y) == IF x[2] < y[2] THEN x[2] ELSE y[2]

\* x and y as integers over their common exponent
Aligned(x, y) == x[1] * Pow2(x[2] - MinExp(x, y))

FAdd(x, y) == Round(Aligned(x, y) + Aligned(y, x), 1, MinExp(x, y))
FSub(x, y) == Round(Aligned(x, y) - Aligned(y, x), 1, MinExp(x, y))
FMul(x, y) == Round(x[1] * y[1], 1, x[2] + y[2])
\* y is not zero
FDiv(x, y) ==
    IF y[1] > 0 THEN Round(x[1], y[1], x[2] - y[2])
    ELSE Round(0 - x[1], 0 - y[1], x[2] - y[2])
FLt(x, y) == Aligned(x, y) < Aligned(y, x)
FGt(x, y) == FLt(y, x)
FZero == <<0, 0>>

FMax(x, y) == IF FLt(x, y) THEN y ELSE x

\* Math.floor, as an integer
FFloor(x) == IF x[2] >= 0 THEN x[1] * Pow2(x[2]) ELSE x[1] \div Pow2(0 - x[2])

RECURSIVE SqrtSearch(_, _, _)
SqrtSearch(n, lo, hi) ==
    IF lo = hi THEN lo
    ELSE LET mid == (lo + hi + 1) \div 2
         IN  IF mid * mid <= n THEN SqrtSearch(n, mid, hi)
             ELSE SqrtSearch(n, lo, mid - 1)

\* the radicand m * 2^e as n * 2^(2k) with n of at least 2*MantBits + 2 bits
RECURSIVE SqrtScaled(_, _)
SqrtScaled(m, e) ==
    IF e % 2 = 0 /\ m >= Pow2(2 * MantBits + 2)
    THEN LET r == SqrtSearch(m, 0, Pow2(MantBits + 2))
         IN  IF r * r = m THEN Round(r, 1, e \div 2)
             ELSE Round(2 * r + 1, 2, e \div 2)
    ELSE SqrtScaled(2 * m, e - 1)

\* Math.sqrt of x >= 0, correctly rounded
FSqrt(x) == IF x[1] = 0 THEN FZero ELSE SqrtScaled(x[1], x[2])

----------------------------------------------------------------------------
(* Values *)

WorkerIds == {"w1"}
Fields == {"idCardImage", "safetyCertImage"}

\* A stored document image is the photo first put in its field followed by
\* the corner lists of the scans applied to it since: <<>> is the photo itself.
Photo == <<>>

\* natural size of the photo first stored in each field
PhotoSize(field) == IF field = "idCardImage" THEN <<160, 120>> ELSE <<90, 150>>

\* containerRef.current: clientWidth, clientHeight and bounding rect origin
ContainerRects ==
    { [clientWidth |-> 200, clientHeight |-> 170, left |-> 16, top |-> 90],
      [clientWidth |-> 140, clientHeight |-> 230, left |-> 8, top |-> 90] }
NoContainer == [clientWidth |-> 0, clientHeight |-> 0, left |-> 0, top |-> 0]

\* clientX / clientY of pointer events
ClientPositions == { <<40, 120>>, <<150, 230>> }

NoEdit == [workerId |-> "null", field |-> "null", src |-> Photo]
NoImage == <<>>
NoDrag == 0 - 1

\* no warpPerspective call is followed
NoWarp == [pc |-> "none"]
\* no extractWorkerInfo call is followed
NoExtract == [pc |-> "none"]

Pt(x, y) == [x |-> x, y |-> y]

Mounted == editingImage # NoEdit

\* one more event of the run, which is none of the calls followed in `warp`
\* and `extract`
Tick == events < MaxEvents /\ events' = events + 1 /\ UNCHANGED <<warp, extract>>

----------------------------------------------------------------------------
(* warpPerspective: destination size *)

Dist(p, q) ==
    FSqrt(FAdd(FMul(FSub(p.x, q.x), FSub(p.x, q.x)),
               FMul(FSub(p.y, q.y), FSub(p.y, q.y))))

\* a faulty variant of DestWidth: the shorter of the two sides
DestWidthMin(corners) ==
    LET top == Dist(corners[2], corners[1])
        bottom == Dist(corners[3], corners[4])
    IN  FFloor(IF FLt(top, bottom) THEN top ELSE bottom)

\* corners[0..3] are corners[1..4] here
DestWidth(corners) ==
    FFloor(FMax(Dist(corners[2], corners[1]), Dist(corners[3], corners[4])))
DestHeight(corners) ==
    FFloor(FMax(Dist(corners[4], corners[1]), Dist(corners[3], corners[2])))

\* natural size of a stored document image: canvas.width x canvas.height of
\* the scan that produced it
ImgSize(field, img) ==
    IF img = Photo THEN PhotoSize(field)
    ELSE <<DestWidth(img[Len(img)]), DestHeight(img[Len(img)])>>

----------------------------------------------------------------------------
(* Numbers of getHomographyMatrix and of the pixel loop.  The linear solve   *)
(* and the resampling are followed in exact arithmetic: a finite number is   *)
(* the fraction <<n, d>> in lowest terms with d > 0.  A non-finite number    *)
(* (NaN, Infinity, -Infinity) is NaN == <<0, 0>>: it arises from a division  *)
(* by zero only, every operation propagates it and every comparison with it *)
(* is false.  (A zero pivot makes every entry of the solution non-finite,    *)
(* and a non-finite source position fails the bounds test, NaN or not.)      *)

NaN == <<0, 0>>

Abs(n) == IF n < 0 THEN 0 - n ELSE n

RECURSIVE GCD(_, _)
GCD(a, b) == IF b = 0 THEN a ELSE GCD(b, a % b)

\* the fraction n / d, for d # 0
QNorm(n, d) ==
    LET g == GCD(Abs(n), Abs(d))
    IN  IF d > 0 THEN <<n \div g, d \div g>> ELSE <<(0 - n) \div g, (0 - d) \div g>>

IsFinite(x) == x[2] # 0

QInt(n) == <<n, 1>>

\* the value of a floating-point number <<m, e>>
QFromFloat(x) ==
    IF x[2] >= 0 THEN <<x[1] * Pow2(x[2]), 1>> ELSE QNorm(x[1], Pow2(0 - x[2]))

\* the fractions are cross-reduced before they are multiplied out, which
\* keeps the intermediate integers small
QAdd(x, y) ==
    IF IsFinite(x) /\ IsFinite(y)
    THEN LET g == GCD(x[2], y[2])
         IN  QNorm(x[1] * (y[2] \div g) + y[1] * (x[2] \div g),
                   (x[2] \div g) * y[2])
    ELSE NaN
QNeg(x) == <<0 - x[1], x[2]>>
QSub(x, y) == QAdd(x, QNeg(y))
QMul(x, y) ==
    IF IsFinite(x) /\ IsFinite(y)
    THEN LET g == GCD(Abs(x[1]), y[2])
             k == GCD(Abs(y[1]), x[2])
         IN  QNorm((x[1] \div g) * (y[1] \div k), (x[2] \div k) * (y[2] \div g))
    ELSE NaN
QDiv(x, y) ==
    IF IsFinite(x) /\ IsFinite(y) /\ y[1] # 0
    THEN QMul(x, QNorm(y[2], y[1])) ELSE NaN
QAbs(x) == <<Abs(x[1]), x[2]>>
QLt(x, y) == IsFinite(x) /\ IsFinite(y) /\ QSub(x, y)[1] < 0
QGe(x, y) == IsFinite(x) /\ IsFinite(y) /\ QSub(x, y)[1] >= 0
\* Math.floor of a finite number, as an integer
QFloor(x) == x[1] \div x[2]

\* the store of a finite number into a Uint8ClampedArray: rounded to the
\* nearest integer, ties to even, and clamped to 0..255
ToUint8Clamped(x) ==
    LET f == QFloor(x)
        r == QSub(x, QInt(f))
        n == IF QLt(<<1, 2>>, r) \/ (r = <<1, 2>> /\ f % 2 = 1) THEN f + 1 ELSE f
    IN  IF n < 0 THEN 0 ELSE IF n > 255 THEN 255 ELSE n

----------------------------------------------------------------------------
(* getHomographyMatrix *)

\* the two rows that correspondence i adds to a, and the two entries to b
EquationRows(p, q) ==
    LET x == QFromFloat(p.x)
        y == QFromFloat(p.y)
        X == QFromFloat(q.x)
        Y == QFromFloat(q.y)
    IN  << <<x, y, QInt(1), QInt(0), QInt(0), QInt(0),
             QMul(QNeg(x), X), QMul(QNeg(y), X)>>,
           <<QInt(0), QInt(0), QInt(0), x, y, QInt(1),
             QMul(QNeg(x), Y), QMul(QNeg(y), Y)>> >>

SystemA(src, dst) ==
    EquationRows(src[1], dst[1]) \o EquationRows(src[2], dst[2]) \o
    EquationRows(src[3], dst[3]) \o EquationRows(src[4], dst[4])

SystemB(dst) ==
    << QFromFloat(dst[1].x), QFromFloat(dst[1].y),
       QFromFloat(dst[2].x), QFromFloat(dst[2].y),
       QFromFloat(dst[3].x), QFromFloat(dst[3].y),
       QFromFloat(dst[4].x), QFromFloat(dst[4].y) >>

\* a faulty variant of PivotRow: a later row of equal absolute value wins
RECURSIVE PivotRowLast(_, _, _, _)
PivotRowLast(a, i, j, p) ==
    IF j > 8 THEN p
    ELSE IF QGe(QAbs(a[j][i]), QAbs(a[p][i])) THEN PivotRowLast(a, i, j + 1, j)
    ELSE PivotRowLast(a, i, j + 1, p)

\* the pivot search of column i, from row j on, p being the best row so far
RECURSIVE PivotRow(_, _, _, _)
PivotRow(a, i, j, p) ==
    IF j > 8 THEN p
    ELSE IF QLt(QAbs(a[p][i]), QAbs(a[j][i])) THEN PivotRow(a, i, j + 1, j)
    ELSE PivotRow(a, i, j + 1, p)

\* [s[i], s[p]] = [s[p], s[i]]
Swapped(s, i, p) == [s EXCEPT ![i] = s[p], ![p] = s[i]]

\* a faulty variant of EliminatedRow: the factor is added instead of subtracted
EliminatedRowAdded(a, i, j) ==
    LET factor == QDiv(a[j][i], a[i][i])
    IN  SubSeq([k \in 1..8 |->
                  IF k < i THEN a[j][k]
                  ELSE QAdd(a[j][k], QMul(factor, a[i][k]))], 1, 8)

\* row j of a after the elimination step of column i
EliminatedRow(a, i, j) ==
    LET factor == QDiv(a[j][i], a[i][i])
    IN  SubSeq([k \in 1..8 |->
                  IF k < i THEN a[j][k]
                  ELSE QSub(a[j][k], QMul(factor, a[i][k]))], 1, 8)

\* a and b after the elimination step of column i (rows already swapped)
EliminatedA(a, i) ==
    SubSeq([j \in 1..8 |-> IF j > i THEN EliminatedRow(a, i, j) ELSE a[j]], 1, 8)

EliminatedB(a, b, i) ==
    SubSeq([j \in 1..8 |->
              IF j > i THEN QSub(b[j], QMul(QDiv(a[j][i], a[i][i]), b[i]))
              ELSE b[j]], 1, 8)

\* the elimination loop from column i on (n = 8 columns), ab being <<a, b>>.
\* Rows i and pivot are exchanged (an exchange of row i with itself changes
\* nothing).
RECURSIVE Eliminate(_, _)
Eliminate(ab, i) ==
    IF i > Len(ab[2]) THEN ab
    ELSE LET pivot == PivotRow(ab[1], i, i + 1, i)
         IN  IF pivot = i
             THEN Eliminate(<< EliminatedA(ab[1], i),
                               EliminatedB(ab[1], ab[2], i) >>, i + 1)
             ELSE Eliminate(<< EliminatedA(Swapped(ab[1], i, pivot), i),
                               EliminatedB(Swapped(ab[1], i, pivot),
                                           Swapped(ab[2], i, pivot), i) >>,
                            i + 1)

\* sum of a[i][j] * x[j] for j from j to 8, x[j] being solved[9 - j]
RECURSIVE RowSum(_, _, _, _)
RowSum(a, solved, i, j) ==
    IF j > 8 THEN QInt(0)
    ELSE QAdd(QMul(a[i][j], solved[9 - j]), RowSum(a, solved, i, j + 1))

\* back substitution from the last row (n = 8) up to row i:
\* <<x[8], x[7], ..., x[i]>>
RECURSIVE BackSubstitute(_, _, _)
BackSubstitute(a, b, i) ==
    IF i > Len(b) THEN <<>>
    ELSE LET solved == BackSubstitute(a, b, i + 1)
         IN  Append(solved,
                    QDiv(QSub(b[i], RowSum(a, solved, i, i + 1)), a[i][i]))

\* <<x[1], ..., x[8]>> from <<x[8], ..., x[1]>>
Reverse8(solved) ==
    << solved[8], solved[7], solved[6], solved[5],
       solved[4], solved[3], solved[2], solved[1] >>

getHomographyMatrix(src, dst) ==
    LET ab == Eliminate(<<SystemA(src, dst), SystemB(dst)>>, 1)
        solved == BackSubstitute(ab[1], ab[2], 1)
    IN  << solved[8], solved[7], solved[6], solved[5],
           solved[4], solved[3], solved[2], solved[1], QInt(1) >>

----------------------------------------------------------------------------
(* warpPerspective: the pixel loop *)

dstPts(width, height) ==
    << Pt(FZero, FZero), Pt(FromInt(width), FZero),
       Pt(FromInt(width), FromInt(height)), Pt(FZero, FromInt(height)) >>

\* srcData.data: the pixel of the decoded source image at column x, row y,
\* as <<R, G, B, A>> (a photo: opaque)
sData(x, y) == << 30 * x + 7 * y, 250 - 9 * x - 30 * y, 11 * x + 35 * y, 255 >>

\* the source position of destination pixel (x, y): <<srcX, srcY>>
SourcePosition(h, x, y) ==
    LET u == QAdd(QAdd(QMul(h[1], QInt(x)), QMul(h[2], QInt(y))), h[3])
        v == QAdd(QAdd(QMul(h[4], QInt(x)), QMul(h[5], QInt(y))), h[6])
        w == QAdd(QAdd(QMul(h[7], QInt(x)), QMul(h[8], QInt(y))), h[9])
    IN  << QDiv(u, w), QDiv(v, w) >>

\* the index of the first byte of pixel (x, y) in the data of an image that
\* is width pixels wide: (y * width + x) * 4
PixelIdx(width, x, y) == (y * width + x) * 4

\* a faulty variant of InBounds: without the margin of one row
InBoundsNoRowMargin(pos, img) ==
    /\ QGe(pos[1], QInt(0)) /\ QLt(pos[1], QInt(img[1] - 1))
    /\ QGe(pos[2], QInt(0)) /\ QLt(pos[2], QInt(img[2]))

\* a faulty variant of InBounds: without the margin of one pixel
InBoundsNoMargin(pos, img) ==
    /\ QGe(pos[1], QInt(0)) /\ QLt(pos[1], QInt(img[1]))
    /\ QGe(pos[2], QInt(0)) /\ QLt(pos[2], QInt(img[2]))

\* the bounds check of the pixel loop
InBounds(pos, img) ==
    /\ QGe(pos[1], QInt(0)) /\ QLt(pos[1], QInt(img[1] - 1))
    /\ QGe(pos[2], QInt(0)) /\ QLt(pos[2], QInt(img[2] - 1))

\* a faulty variant of Interpolated: the weights of the two rows exchanged
InterpolatedRowsSwapped(pos, c) ==
    LET x0 == QFloor(pos[1])
        y0 == QFloor(pos[2])
        wx == QSub(pos[1], QInt(x0))
        wy == QSub(pos[2], QInt(y0))
        top == QAdd(QMul(QInt(sData(x0, y0)[c]), QSub(QInt(1), wx)),
                    QMul(QInt(sData(x0 + 1, y0)[c]), wx))
        bottom == QAdd(QMul(QInt(sData(x0, y0 + 1)[c]), QSub(QInt(1), wx)),
                       QMul(QInt(sData(x0 + 1, y0 + 1)[c]), wx))
    IN  ToUint8Clamped(QAdd(QMul(top, wy), QMul(bottom, QSub(QInt(1), wy))))

\* a faulty variant of Interpolated: the weights of the two columns exchanged
InterpolatedSwapped(pos, c) ==
    LET x0 == QFloor(pos[1])
        y0 == QFloor(pos[2])
        wx == QSub(pos[1], QInt(x0))
        wy == QSub(pos[2], QInt(y0))
        top == QAdd(QMul(QInt(sData(x0, y0)[c]), wx),
                    QMul(QInt(sData(x0 + 1, y0)[c]), QSub(QInt(1), wx)))
        bottom == QAdd(QMul(QInt(sData(x0, y0 + 1)[c]), wx),
                       QMul(QInt(sData(x0 + 1, y0 + 1)[c]), QSub(QInt(1), wx)))
    IN  ToUint8Clamped(QAdd(QMul(top, QSub(QInt(1), wy)), QMul(bottom, wy)))

\* channel c (1..3) of the pixel interpolated at the in-bounds position pos
Interpolated(pos, c) ==
    LET x0 == QFloor(pos[1])
        y0 == QFloor(pos[2])
        wx == QSub(pos[1], QInt(x0))
        wy == QSub(pos[2], QInt(y0))
        top == QAdd(QMul(QInt(sData(x0, y0)[c]), QSub(QInt(1), wx)),
                    QMul(QInt(sData(x0 + 1, y0)[c]), wx))
        bottom == QAdd(QMul(QInt(sData(x0, y0 + 1)[c]), QSub(QInt(1), wx)),
                       QMul(QInt(sData(x0 + 1, y0 + 1)[c]), wx))
    IN  ToUint8Clamped(QAdd(QMul(top, QSub(QInt(1), wy)), QMul(bottom, wy)))

\* what the loop body leaves in dData for destination pixel (x, y)
DestPixel(h, img, x, y) ==
    LET pos == SourcePosition(h, x, y)
    IN  IF InBounds(pos, img)
        THEN << Interpolated(pos, 1), Interpolated(pos, 2),
                Interpolated(pos, 3), 255 >>
        ELSE << 0, 0, 0, 0 >>

\* dstData.data after the loop: row y + 1, column x + 1 holds pixel (x, y)
dData(h, img, width, height) ==
    [y \in 1..height |-> [x \in 1..width |-> DestPixel(h, img, x - 1, y - 1)]]

----------------------------------------------------------------------------
(* ImageCropper *)

InitDims == [width |-> FZero, height |-> FZero, left |-> FZero, top |-> FZero,
             scale |-> FromInt(1)]

padding == 40

CornersOf(w, h) == << Pt(FZero, FZero), Pt(w, FZero), Pt(w, h), Pt(FZero, h) >>

\* a faulty variant of Layout: the image always takes the available width
LayoutFillWidth(c, img) ==
    LET availWidth == FromInt(c.clientWidth - padding * 2)
        imgAspect == FDiv(FromInt(img[1]), FromInt(img[2]))
        displayHeight == FDiv(availWidth, imgAspect)
    IN  [width |-> availWidth,
         height |-> displayHeight,
         left |-> FZero,
         top |-> FDiv(FSub(FromInt(c.clientHeight), displayHeight), FromInt(2)),
         scale |-> FDiv(FromInt(img[1]), availWidth)]

\* the display geometry computed by updateLayout
Layout(c, img) ==
    LET availWidth == FromInt(c.clientWidth - padding * 2)
        availHeight == FromInt(c.clientHeight - padding * 2)
        imgAspect == FDiv(FromInt(img[1]), FromInt(img[2]))
        containerAspect == FDiv(availWidth, availHeight)
        wide == FGt(imgAspect, containerAspect)
        displayWidth == IF wide THEN availWidth ELSE FMul(availHeight, imgAspect)
        displayHeight == IF wide THEN FDiv(availWidth, imgAspect) ELSE availHeight
    IN  [width |-> displayWidth,
         height |-> displayHeight,
         left |-> FDiv(FSub(FromInt(c.clientWidth), displayWidth), FromInt(2)),
         top |-> FDiv(FSub(FromInt(c.clientHeight), displayHeight), FromInt(2)),
         scale |-> FDiv(FromInt(img[1]), displayWidth)]

\* the points updateLayout leaves, its closure having captured `captured`
LayoutPoints(captured, current, dims) ==
    IF Len(captured) = 0 THEN CornersOf(dims.width, dims.height) ELSE current

\* updateLayout, run with container c, image img and the closure's points
updateLayout(c, img, captured) ==
    /\ displayedImgDims' = Layout(c, img)
    /\ points' = LayoutPoints(captured, points, Layout(c, img))

\* the state of a freshly mounted (or of no) ImageCropper
Fresh(c, d) ==
    /\ container' = c
    /\ decode' = d
    /\ image' = NoImage
    /\ points' = <<>>
    /\ displayedImgDims' = InitDims
    /\ draggingPointIndex' = NoDrag
    /\ isProcessing' = FALSE
    /\ effectPoints' = <<>>
    /\ dragged' = FALSE

Unmount == Fresh(NoContainer, "none")

\* App.openImageEditor, from a WorkerCard's edit button (which the open
\* editor's full-screen overlay covers); ImageCropper mounts and starts
\* loading the image
openImageEditor(w, f, c) ==
    /\ Tick
    /\ ~Mounted
    /\ editingImage' = [workerId |-> w, field |-> f, src |-> workers[w][f]]
    /\ session' = session + 1
    /\ Fresh(c, "pending")
    /\ UNCHANGED <<workers, jobs, cancelled>>

\* img.onload of the editor's image: setImage, then the layout effect runs
\* updateLayout and installs it as the resize listener
imageOnload ==
    /\ Tick
    /\ Mounted
    /\ decode = "pending"
    /\ decode' = "ok"
    /\ image' = ImgSize(editingImage.field, editingImage.src)
    /\ effectPoints' = points
    /\ updateLayout(container, image', points)
    /\ UNCHANGED <<workers, editingImage, session, container,
                   draggingPointIndex, isProcessing, jobs, cancelled, dragged>>

\* the editor's image fails to load: no handler is installed
imageOnerror ==
    /\ Tick
    /\ Mounted
    /\ decode = "pending"
    /\ decode' = "failed"
    /\ UNCHANGED <<workers, editingImage, session, container, image, points,
                   displayedImgDims, draggingPointIndex, isProcessing,
                   effectPoints, jobs, cancelled, dragged>>

\* the window is resized: the container takes rect c, and the listener, if
\* the layout effect has installed it, runs updateLayout
resize(c) ==
    /\ Tick
    /\ Mounted
    /\ container' = c
    /\ IF image # NoImage
       THEN updateLayout(c, image, effectPoints)
       ELSE UNCHANGED <<points, displayedImgDims>>
    /\ UNCHANGED <<workers, editingImage, session, decode, image,
                   draggingPointIndex, isProcessing, effectPoints,
                   jobs, cancelled, dragged>>

\* pointer-down on handle `index`, which is rendered once the image is set
handleMouseDown(index) ==
    /\ Tick
    /\ Mounted
    /\ image # NoImage
    /\ index < Len(points)
    /\ draggingPointIndex' = index
    /\ UNCHANGED <<workers, editingImage, session, container, decode, image,
                   points, displayedImgDims, isProcessing, effectPoints,
                   jobs, cancelled, dragged>>

\* a faulty variant of MovedPoint: the position is kept inside the display
MovedPointClamped(pos, c, dims) ==
    LET x == FSub(FSub(FromInt(pos[1]), FromInt(c.left)), dims.left)
        y == FSub(FSub(FromInt(pos[2]), FromInt(c.top)), dims.top)
    IN  Pt(IF FLt(x, FZero) THEN FZero ELSE IF FGt(x, dims.width) THEN dims.width ELSE x,
           IF FLt(y, FZero) THEN FZero ELSE IF FGt(y, dims.height) THEN dims.height ELSE y)

\* the position handleMove computes for a pointer at pos
MovedPoint(pos, c, dims) ==
    Pt(FSub(FSub(FromInt(pos[1]), FromInt(c.left)), dims.left),
       FSub(FSub(FromInt(pos[2]), FromInt(c.top)), dims.top))

\* a faulty variant of MovedPoints: the next point follows the dragged one
MovedPointsAlsoNext(pts, index, p) ==
    [pts EXCEPT ![index + 1] = p, ![((index + 1) % 4) + 1] = p]

\* newPoints[draggingPointIndex] = { x, y }
MovedPoints(pts, index, p) == [pts EXCEPT ![index + 1] = p]

handleMove(pos) ==
    /\ Tick
    /\ Mounted
    /\ IF draggingPointIndex = NoDrag
       THEN UNCHANGED <<points, dragged>>
       ELSE /\ points' = MovedPoints(points, draggingPointIndex,
                                     MovedPoint(pos, container, displayedImgDims))
            /\ dragged' = TRUE
    /\ UNCHANGED <<workers, editingImage, session, container, decode, image,
                   displayedImgDims, draggingPointIndex, isProcessing,
                   effectPoints, jobs, cancelled>>

\* a faulty variant of handleEnd: the drag goes on
handleEndKeepsDrag ==
    /\ Tick
    /\ Mounted
    /\ UNCHANGED <<workers, editingImage, session, container, decode, image,
                   points, displayedImgDims, draggingPointIndex, isProcessing,
                   effectPoints, jobs, cancelled, dragged>>

\* pointer-up, pointer-leave, touch-end
handleEnd ==
    /\ Tick
    /\ Mounted
    /\ draggingPointIndex' = NoDrag
    /\ UNCHANGED <<workers, editingImage, session, container, decode, image,
                   points, displayedImgDims, isProcessing, effectPoints,
                   jobs, cancelled, dragged>>

\* a faulty variant of ResetPoints: width and height exchanged
ResetPointsSwapped(dims) == CornersOf(dims.height, dims.width)

ResetPoints(dims) == CornersOf(dims.width, dims.height)

resetPoints ==
    /\ Tick
    /\ Mounted
    /\ points' = ResetPoints(displayedImgDims)
    /\ UNCHANGED <<workers, editingImage, session, container, decode, image,
                   displayedImgDims, draggingPointIndex, isProcessing,
                   effectPoints, jobs, cancelled, dragged>>

\* a faulty variant of OriginalPoints: y is left in display space
OriginalPointsXOnly(pts, scale) ==
    [i \in 1..Len(pts) |-> Pt(FMul(pts[i].x, scale), pts[i].y)]

\* originalPoints
OriginalPoints(pts, scale) ==
    [i \in 1..Len(pts) |-> Pt(FMul(pts[i].x, scale), FMul(pts[i].y, scale))]

\* what a handleProcessAndSave invocation holds from the render of its click
NewJob ==
    [session |-> session,
     workerId |-> editingImage.workerId,
     field |-> editingImage.field,
     imageSrc |-> editingImage.src,
     corners |-> OriginalPoints(points, displayedImgDims.scale),
     pc |-> "timer",
     error |-> "none"]

\* a faulty variant of handleProcessAndSave: without the isProcessing guard
handleProcessAndSaveUnguarded ==
    /\ Tick
    /\ Mounted
    /\ isProcessing' = TRUE
    /\ jobs' = Append(jobs, NewJob)
    /\ UNCHANGED <<workers, editingImage, session, container, decode, image,
                   points, displayedImgDims, draggingPointIndex, effectPoints,
                   cancelled, dragged>>

\* click on the confirm button, up to the first await
handleProcessAndSave ==
    /\ Tick
    /\ Mounted
    /\ IF isProcessing
       THEN UNCHANGED <<isProcessing, jobs>>
       ELSE /\ isProcessing' = TRUE
            /\ jobs' = Append(jobs, NewJob)
    /\ UNCHANGED <<workers, editingImage, session, container, decode, image,
                   points, displayedImgDims, draggingPointIndex, effectPoints,
                   cancelled, dragged>>

\* the cancel button: App's onCancel closes the editor
onCancel ==
    /\ Tick
    /\ Mounted
    /\ editingImage' = NoEdit
    /\ cancelled' = cancelled \cup {session}
    /\ Unmount
    /\ UNCHANGED <<workers, session, jobs>>

----------------------------------------------------------------------------
(* A running handleProcessAndSave and its warpPerspective call *)

\* a faulty variant of timerFires: the corners are taken from the points of
\* the time of the call
timerFiresRereadsPoints(j) ==
    /\ Tick
    /\ jobs[j].pc = "timer"
    /\ jobs' = [jobs EXCEPT ![j].pc = "decoding",
                            ![j].corners = OriginalPoints(points, displayedImgDims.scale)]
    /\ UNCHANGED <<workers, editingImage, session, container, decode, image,
                   points, displayedImgDims, draggingPointIndex, isProcessing,
                   effectPoints, cancelled, dragged>>

\* the 50 ms timer fires: warpPerspective is called and starts loading imageSrc
timerFires(j) ==
    /\ Tick
    /\ jobs[j].pc = "timer"
    /\ jobs' = [jobs EXCEPT ![j].pc = "decoding"]
    /\ UNCHANGED <<workers, editingImage, session, container, decode, image,
                   points, displayedImgDims, draggingPointIndex, isProcessing,
                   effectPoints, cancelled, dragged>>

\* a faulty variant of WarpOutcome: the missing context goes unnoticed
WarpOutcomeUnchecked(corners, ctxOk) ==
    IF Len(corners) < 4 THEN "threw"
    ELSE IF DestWidth(corners) = 0 \/ DestHeight(corners) = 0 THEN "threw"
    ELSE "resolved"

\* How img.onload of warpPerspective ends: "threw" when reading corners[1].x
\* of a list without that element, or when createImageData is asked for a
\* zero width or height, throws out of the handler; "rejected" without a
\* drawing context; "resolved" otherwise.
WarpOutcome(corners, ctxOk) ==
    IF Len(corners) < 4 THEN "threw"
    ELSE IF ~ctxOk THEN "rejected"
    ELSE IF DestWidth(corners) = 0 \/ DestHeight(corners) = 0 THEN "threw"
    ELSE "resolved"

\* a faulty variant of catch: the processing flag is left set
catchKeepsProcessing(j, e) ==
    /\ jobs' = [jobs EXCEPT ![j].pc = "rejected", ![j].error = e]
    /\ UNCHANGED <<workers, editingImage, session, container, decode, image,
                   points, displayedImgDims, draggingPointIndex, isProcessing,
                   effectPoints, cancelled, dragged>>

\* the catch block, entered with the rejection reason e:
\* setIsProcessing(false), which acts on the instance that started the job
\* if it is still mounted
catch(j, e) ==
    /\ jobs' = [jobs EXCEPT ![j].pc = "rejected", ![j].error = e]
    /\ isProcessing' = IF Mounted /\ session = jobs[j].session
                       THEN FALSE ELSE isProcessing
    /\ UNCHANGED <<workers, editingImage, session, container, decode, image,
                   points, displayedImgDims, draggingPointIndex,
                   effectPoints, cancelled, dragged>>

\* updateWorker(editingImage.workerId, {[editingImage.field]: processedImage})
UpdatedWorkers(ws, job) ==
    [ws EXCEPT ![job.workerId][job.field] = Append(job.imageSrc, job.corners)]

\* onSave(resultBase64): App.handleImageSave of the render the job started
\* in, whose editingImage is the job's; setEditingImage(null) closes the
\* editor that is open now
onSave(j) ==
    /\ jobs' = [jobs EXCEPT ![j].pc = "saved"]
    /\ workers' = UpdatedWorkers(workers, jobs[j])
    /\ editingImage' = NoEdit
    /\ Unmount
    /\ UNCHANGED <<session, cancelled>>

\* img.onload of warpPerspective, and the continuation of the await
warpOnload(j, ctxOk) ==
    /\ Tick
    /\ jobs[j].pc = "decoding"
    /\ LET outcome == WarpOutcome(jobs[j].corners, ctxOk)
       IN  CASE outcome = "resolved" -> onSave(j)
             [] outcome = "rejected" -> catch(j, "Canvas context error")
             [] OTHER ->
                  /\ jobs' = [jobs EXCEPT ![j].pc = "threw"]
                  /\ UNCHANGED <<workers, editingImage, session, container,
                                 decode, image, points, displayedImgDims,
                                 draggingPointIndex, isProcessing,
                                 effectPoints, cancelled, dragged>>

\* img.onerror of warpPerspective: reject("Failed to load image")
warpOnerror(j) ==
    /\ Tick
    /\ jobs[j].pc = "decoding"
    /\ catch(j, "Failed to load image")

----------------------------------------------------------------------------

Init ==
    /\ workers = [w \in WorkerIds |-> [f \in Fields |-> Photo]]
    /\ editingImage = NoEdit
    /\ session = 0
    /\ container = NoContainer
    /\ decode = "none"
    /\ image = NoImage
    /\ points = <<>>
    /\ displayedImgDims = InitDims
    /\ draggingPointIndex = NoDrag
    /\ isProcessing = FALSE
    /\ effectPoints = <<>>
    /\ jobs = <<>>
    /\ cancelled = {}
    /\ dragged = FALSE
    /\ events = 0
    /\ warp = NoWarp
    /\ extract = NoExtract

Next ==
    \/ \E w \in WorkerIds, f \in Fields, c \in ContainerRects :
          openImageEditor(w, f, c)
    \/ imageOnload
    \/ imageOnerror
    \/ \E c \in ContainerRects : resize(c)
    \/ \E index \in 0..3 : handleMouseDown(index)
    \/ \E pos \in ClientPositions : handleMove(pos)
    \/ handleEnd
    \/ resetPoints
    \/ handleProcessAndSave
    \/ onCancel
    \/ \E j \in 1..Len(jobs) : timerFires(j)
    \/ \E j \in 1..Len(jobs), ctxOk \in BOOLEAN : warpOnload(j, ctxOk)
    \/ \E j \in 1..Len(jobs) : warpOnerror(j)

Spec == Init /\ [][Next]_vars

----------------------------------------------------------------------------
(* The layout computation as a function of the container and image sizes *)

LayoutContainers ==
    { [clientWidth |-> padding * 2 + aw, clientHeight |-> padding * 2 + ah,
       left |-> 0, top |-> 0] : aw \in 1..MaxAvail, ah \in 1..MaxAvail }

ImageSizes == { <<iw, ih>> : iw \in 1..MaxImage, ih \in 1..MaxImage }

\* an editor whose image has just been set, before the layout effect runs
LayoutInit ==
    /\ workers = [w \in WorkerIds |-> [f \in Fields |-> Photo]]
    /\ editingImage = [workerId |-> "w1", field |-> "idCardImage", src |-> Photo]
    /\ session = 1
    /\ container \in LayoutContainers
    /\ decode = "pending"
    /\ image \in ImageSizes
    /\ points = <<>>
    /\ displayedImgDims = InitDims
    /\ draggingPointIndex = NoDrag
    /\ isProcessing = FALSE
    /\ effectPoints = <<>>
    /\ jobs = <<>>
    /\ cancelled = {}
    /\ dragged = FALSE
    /\ events = 0
    /\ warp = NoWarp
    /\ extract = NoExtract

\* the layout effect: updateLayout() and its registration as resize listener
layoutEffect ==
    /\ decode = "pending"
    /\ decode' = "ok"
    /\ effectPoints' = points
    /\ updateLayout(container, image, points)
    /\ UNCHANGED <<workers, editingImage, session, container, image,
                   draggingPointIndex, isProcessing, jobs, cancelled, dragged,
                   events, warp, extract>>

LayoutNext == layoutEffect

LayoutSpec == LayoutInit /\ [][LayoutNext]_vars

----------------------------------------------------------------------------
(* One warpPerspective call as a function of the image and the corner list *)

WarpImage == <<WarpSide + 1, WarpSide>>

IntPt(x, y) == Pt(FromInt(x), FromInt(y))

\* corner lists TL, TR, BR, BL; x is <<TL.x, TR.x and BR.x, BL.x>>
WarpCorners ==
    { << IntPt(x[1], y[1]), IntPt(x[2], y[2]), IntPt(x[2], y[3]), IntPt(x[3], y[4]) >> :
        x \in (0..1) \X ((WarpImage[1] - 1)..WarpImage[1]) \X (0..1),
        y \in (0..MaxSkew) \X (0..MaxSkew)
                \X ((WarpImage[2] - MaxSkew)..WarpImage[2])
                \X ((WarpImage[2] - MaxSkew)..WarpImage[2]) }

\* a call whose image is being decoded
NewWarp(img, corners) ==
    [pc |-> "decoding", img |-> img, corners |-> corners,
     width |-> 0, height |-> 0, dstPts |-> <<>>, h |-> <<>>, dData |-> <<>>]

WarpInit ==
    /\ workers = [w \in WorkerIds |-> [f \in Fields |-> Photo]]
    /\ editingImage = NoEdit
    /\ session = 0
    /\ container = NoContainer
    /\ decode = "none"
    /\ image = NoImage
    /\ points = <<>>
    /\ displayedImgDims = InitDims
    /\ draggingPointIndex = NoDrag
    /\ isProcessing = FALSE
    /\ effectPoints = <<>>
    /\ jobs = <<>>
    /\ cancelled = {}
    /\ dragged = FALSE
    /\ events = 0
    /\ \E corners \in WarpCorners : warp = NewWarp(WarpImage, corners)
    /\ extract = NoExtract

\* the steps of img.onload on the locals w of the call, for a call that
\* resolves: the destination size,
Sized(w) ==
    [w EXCEPT !.width = DestWidth(w.corners), !.height = DestHeight(w.corners)]
\* the destination points,
Placed(w) == [w EXCEPT !.dstPts = dstPts(w.width, w.height)]
\* the matrix from destination to source,
Solved(w) == [w EXCEPT !.h = getHomographyMatrix(w.dstPts, w.corners)]
\* and the pixel loop
Resampled(w) ==
    [w EXCEPT !.dData = dData(w.h, w.img, w.width, w.height), !.pc = "resolved"]

\* img.onload of warpPerspective; the locals are kept for a call that resolves
warpImgOnload(ctxOk) ==
    /\ warp.pc = "decoding"
    /\ LET outcome == WarpOutcome(warp.corners, ctxOk)
       IN  warp' = IF outcome = "resolved"
                   THEN Resampled(Solved(Placed(Sized(warp))))
                   ELSE [warp EXCEPT !.pc = outcome]
    /\ UNCHANGED <<workers, editingImage, session, container, decode, image,
                   points, displayedImgDims, draggingPointIndex, isProcessing,
                   effectPoints, jobs, cancelled, dragged, events, extract>>

\* img.onerror of warpPerspective
warpImgOnerror ==
    /\ warp.pc = "decoding"
    /\ warp' = [warp EXCEPT !.pc = "rejected"]
    /\ UNCHANGED <<workers, editingImage, session, container, decode, image,
                   points, displayedImgDims, draggingPointIndex, isProcessing,
                   effectPoints, jobs, cancelled, dragged, events, extract>>

WarpNext ==
    \/ \E ctxOk \in BOOLEAN : warpImgOnload(ctxOk)
    \/ warpImgOnerror

WarpSpec == WarpInit /\ [][WarpNext]_vars

----------------------------------------------------------------------------
(* The same call, with getHomographyMatrix followed one loop iteration at a *)
(* time.  Rows, columns and i are counted from 1: step i of the model is    *)
(* the iteration i - 1 of the code.                                         *)

\* the call of getHomographyMatrix(dstPts, srcPts) and the construction of
\* a and b
Entered(w) ==
    [pc |-> "pivoting", img |-> w.img, corners |-> w.corners,
     width |-> w.width, height |-> w.height, dstPts |-> w.dstPts,
     i |-> 1, pivot |-> 1,
     a |-> SystemA(w.dstPts, w.corners), b |-> SystemB(w.corners), h |-> <<>>]

\* the pivot search of iteration i
Searched(w) == [w EXCEPT !.pivot = PivotRow(w.a, w.i, w.i + 1, w.i)]

\* the two exchanges of iteration i
Exchanged(w) ==
    [w EXCEPT !.a = Swapped(w.a, w.i, w.pivot), !.b = Swapped(w.b, w.i, w.pivot),
              !.pc = "reducing"]

\* the elimination of column i from the rows below row i, and i++
Reduced(w) ==
    [w EXCEPT !.a = EliminatedA(w.a, w.i), !.b = EliminatedB(w.a, w.b, w.i),
              !.i = w.i + 1, !.pc = "pivoting"]

\* the back substitution and the return of [...x, 1]
Returned(w) ==
    [w EXCEPT !.h = Reverse8(BackSubstitute(w.a, w.b, 1)) \o <<QInt(1)>>,
              !.pc = "returned"]

\* img.onload up to the first iteration of the elimination loop
solveEnter ==
    /\ warp.pc = "decoding"
    /\ warp' = Entered(Placed(Sized(warp)))
    /\ UNCHANGED <<workers, editingImage, session, container, decode, image,
                   points, displayedImgDims, draggingPointIndex, isProcessing,
                   effectPoints, jobs, cancelled, dragged, events, extract>>

\* the pivot search and the exchange of rows of one iteration
solvePivot ==
    /\ warp.pc = "pivoting"
    /\ warp.i <= 8
    /\ warp' = Exchanged(Searched(warp))
    /\ UNCHANGED <<workers, editingImage, session, container, decode, image,
                   points, displayedImgDims, draggingPointIndex, isProcessing,
                   effectPoints, jobs, cancelled, dragged, events, extract>>

\* the elimination of one iteration
solveReduce ==
    /\ warp.pc = "reducing"
    /\ warp' = Reduced(warp)
    /\ UNCHANGED <<workers, editingImage, session, container, decode, image,
                   points, displayedImgDims, draggingPointIndex, isProcessing,
                   effectPoints, jobs, cancelled, dragged, events, extract>>

\* the end of the elimination loop
solveReturn ==
    /\ warp.pc = "pivoting"
    /\ warp.i > 8
    /\ warp' = Returned(warp)
    /\ UNCHANGED <<workers, editingImage, session, container, decode, image,
                   points, displayedImgDims, draggingPointIndex, isProcessing,
                   effectPoints, jobs, cancelled, dragged, events, extract>>

SolveNext ==
    \/ solveEnter
    \/ solvePivot
    \/ solveReduce
    \/ solveReturn

SolveSpec == WarpInit /\ [][SolveNext]_vars

----------------------------------------------------------------------------
(* extractWorkerInfo: one call, from the test of the API key to its return. *)
(* A JavaScript value is a record: an array has its items, an error the     *)
(* properties that the catch block reads.  The message of an error is kept  *)
(* as the set of those of the three substrings looked for that it contains. *)

maxAttempts == 7

Arr(items) == [type |-> "array", items |-> items]
Doc(name) == [type |-> "object", name |-> name]
Undefined == [type |-> "undefined"]

\* error.error when the error has no such property
NoNested == [code |-> 0, status |-> "undefined"]

\* an error object; kind tells what happened and is no property of the object
Err(kind, status, code, message, nested) ==
    [kind |-> kind, status |-> status, code |-> code, message |-> message,
     error |-> nested]

NoError == Err("none", 0, 0, {}, NoNested)

\* the decimal digits of n include 429
Contains429(n) == \E k \in 0..3 : (n \div (10 ^ k)) % 1000 = 429

\* what generateContent rejects with: the error of the SDK for a response of
\* status 429, a raw response body, an error that carries a numeric code,
\* and an error that is none of quota (status 500)
Rejections ==
    { Err("quota", 429, 0, {"429", "quota", "RESOURCE_EXHAUSTED"}, NoNested),
      Err("quota", 0, 0, {},
          [code |-> 429, status |-> "RESOURCE_EXHAUSTED"]),
      Err("quota", 0, 429, {"quota"}, NoNested),
      Err("api", 500, 0, {}, NoNested) }

\* new Error("Request timed out")
TimeoutError == Err("timeout", 0, 0, {}, NoNested)

\* the SyntaxError of JSON.parse: "... in JSON at position <at>"
SyntaxError(at) ==
    Err("parse", 0, 0, IF Contains429(at) THEN {"429"} ELSE {}, NoNested)

\* response.text: nothing, the text of an array, the text of one object, or
\* a text that is no JSON from position `at` on
Texts ==
    { [json |-> "empty", items |-> <<>>, at |-> 0],
      [json |-> "array", items |-> <<>>, at |-> 0],
      [json |-> "array", items |-> <<Doc("a"), Doc("b")>>, at |-> 0],
      [json |-> "object", items |-> <<Doc("a")>>, at |-> 0],
      [json |-> "invalid", items |-> <<>>, at |-> 17],
      [json |-> "invalid", items |-> <<>>, at |-> 429] }

\* JSON.parse(text): the value, or the error thrown
JSONparse(text) ==
    IF text.json = "array" THEN [ok |-> TRUE, value |-> Arr(text.items)]
    ELSE IF text.json = "object" THEN [ok |-> TRUE, value |-> text.items[1]]
    ELSE [ok |-> FALSE, value |-> SyntaxError(text.at)]

isQuotaError(error) ==
    \/ error.status = 429
    \/ error.code = 429
    \/ "429" \in error.message
    \/ "quota" \in error.message
    \/ "RESOURCE_EXHAUSTED" \in error.message
    \/ /\ error.error # NoNested
       /\ (error.error.code = 429 \/ error.error.status = "RESOURCE_EXHAUSTED")

\* a call that has not yet run; calls counts the generateContent requests
\* and waits lists the delays waited for so far
NewExtract(apiKey) ==
    [pc |-> "called", apiKey |-> apiKey, attempt |-> 0, calls |-> 0,
     waits |-> <<>>, error |-> NoError, result |-> Undefined]

\* return v
Return(e, v) == [e EXCEPT !.pc = "returned", !.result = v]

\* the loop test and, if it holds, the request and the timer of an attempt,
\* up to the await of their race
LoopHead(e) ==
    IF e.attempt < maxAttempts
    THEN [e EXCEPT !.pc = "racing", !.calls = @ + 1]
    ELSE Return(e, Arr(<<>>))

\* the catch block, up to its await, its return or the next attempt
Caught(e, error) ==
    IF isQuotaError(error) /\ e.attempt < maxAttempts - 1
    THEN [e EXCEPT !.pc = "waiting", !.error = error,
                   !.waits = Append(@, 2000 * Pow2(e.attempt))]
    ELSE IF e.attempt = maxAttempts - 1 \/ ~isQuotaError(error)
         THEN Return([e EXCEPT !.error = error], Arr(<<>>))
         ELSE LoopHead([e EXCEPT !.error = error, !.attempt = @ + 1])

\* a faulty variant of Received: the parsed value is returned as it is
ReceivedUnwrapped(e, text) ==
    IF text.json # "empty"
    THEN IF JSONparse(text).ok
         THEN Return(e, JSONparse(text).value)
         ELSE Caught(e, JSONparse(text).value)
    ELSE Return(e, Arr(<<>>))

\* the try block after the race was won by a response with this text
Received(e, text) ==
    IF text.json # "empty"
    THEN IF JSONparse(text).ok
         THEN IF JSONparse(text).value.type = "array"
              THEN Return(e, JSONparse(text).value)
              ELSE Return(e, Arr(<<JSONparse(text).value>>))
         ELSE Caught(e, JSONparse(text).value)
    ELSE Return(e, Arr(<<>>))

ExtractInit ==
    /\ workers = [w \in WorkerIds |-> [f \in Fields |-> Photo]]
    /\ editingImage = NoEdit
    /\ session = 0
    /\ container = NoContainer
    /\ decode = "none"
    /\ image = NoImage
    /\ points = <<>>
    /\ displayedImgDims = InitDims
    /\ draggingPointIndex = NoDrag
    /\ isProcessing = FALSE
    /\ effectPoints = <<>>
    /\ jobs = <<>>
    /\ cancelled = {}
    /\ dragged = FALSE
    /\ events = 0
    /\ warp = NoWarp
    /\ \E apiKey \in BOOLEAN : extract = NewExtract(apiKey)

\* the call, up to its first await or its return
extractWorkerInfo ==
    /\ extract.pc = "called"
    /\ extract' = IF ~extract.apiKey THEN Return(extract, Arr(<<>>))
                  ELSE LoopHead(extract)
    /\ UNCHANGED <<workers, editingImage, session, container, decode, image,
                   points, displayedImgDims, draggingPointIndex, isProcessing,
                   effectPoints, jobs, cancelled, dragged, events, warp>>

\* generateContent resolves before the timer fires
apiResolves(text) ==
    /\ extract.pc = "racing"
    /\ extract' = Received(extract, text)
    /\ UNCHANGED <<workers, editingImage, session, container, decode, image,
                   points, displayedImgDims, draggingPointIndex, isProcessing,
                   effectPoints, jobs, cancelled, dragged, events, warp>>

\* generateContent rejects before the timer fires
apiRejects(error) ==
    /\ extract.pc = "racing"
    /\ extract' = Caught(extract, error)
    /\ UNCHANGED <<workers, editingImage, session, container, decode, image,
                   points, displayedImgDims, draggingPointIndex, isProcessing,
                   effectPoints, jobs, cancelled, dragged, events, warp>>

\* the timer of 20000 ms fires first
requestTimesOut ==
    /\ extract.pc = "racing"
    /\ extract' = Caught(extract, TimeoutError)
    /\ UNCHANGED <<workers, editingImage, session, container, decode, image,
                   points, displayedImgDims, draggingPointIndex, isProcessing,
                   effectPoints, jobs, cancelled, dragged, events, warp>>

\* the timer of the backoff fires: attempt++; continue
backoffElapsed ==
    /\ extract.pc = "waiting"
    /\ extract' = LoopHead([extract EXCEPT !.attempt = @ + 1])
    /\ UNCHANGED <<workers, editingImage, session, container, decode, image,
                   points, displayedImgDims, draggingPointIndex, isProcessing,
                   effectPoints, jobs, cancelled, dragged, events, warp>>

ExtractNext ==
    \/ extractWorkerInfo
    \/ \E text \in Texts : apiResolves(text)
    \/ \E error \in Rejections : apiRejects(error)
    \/ requestTimesOut
    \/ backoffElapsed

ExtractSpec == ExtractInit /\ [][ExtractNext]_vars

\* the call runs when it is made, each of the two timers fires when its
\* delay has passed, and the race of an attempt is settled by then
ExtractLiveSpec == ExtractSpec /\ WF_vars(ExtractNext)

----------------------------------------------------------------------------
(* Properties *)

JobIds == 1..Len(jobs)

\* the geometry of the latest layout computation of the open editor
LatestLayout == Layout(container, image)

\* the natural size of the image the open editor was given
SourceSize == ImgSize(editingImage.field, editingImage.src)

\* a step of handleProcessAndSave that passes the isProcessing guard
ConfirmAccepted == handleProcessAndSave /\ ~isProcessing

\* a Confirm of the open session has been accepted
Confirmed == \E j \in JobIds : jobs[j].session = session

\* C1: in every state of an editing session, from mount to confirm or cancel,
\* the Corner Set holds exactly 4 points.
C1_ExactlyFourPoints == Mounted => Len(points) = 4

\* C2: only the first layout computation initializes the points; a layout
\* recomputation caused by a resize never overwrites them, so the positions
\* set by drags survive every later resize.
C2_ResizeKeepsPoints ==
    [][((\E c \in ContainerRects : resize(c)) /\ dragged) =>
          points' = points]_vars

\* C3: right after the first successful layout computation (the one the
\* layout effect runs when the image has loaded), whatever preceded it, the
\* points are the display corners TL, TR, BR, BL.
C3_FirstLayoutSetsCorners ==
    [][imageOnload =>
          points' = << Pt(FZero, FZero),
                       Pt(displayedImgDims'.width, FZero),
                       Pt(displayedImgDims'.width, displayedImgDims'.height),
                       Pt(FZero, displayedImgDims'.height) >>]_vars

\* C4: a pointer-move replaces at most the point being dragged: with index i
\* dragged the other three points stay identical, with no drag all points do.
C4_MoveChangesOnlyDragged ==
    [][(\E pos \in ClientPositions : handleMove(pos)) =>
          /\ Len(points') = Len(points)
          /\ \A k \in 1..Len(points) :
                k # draggingPointIndex + 1 => points'[k] = points[k]]_vars

C4_Witness ==
    /\ Mounted
    /\ Len(points) = 4
    /\ draggingPointIndex = 2
    /\ points[3] # CornersOf(displayedImgDims.width, displayedImgDims.height)[3]
    /\ \A k \in {1, 2, 4} :
          points[k] = CornersOf(displayedImgDims.width, displayedImgDims.height)[k]

\* C5: Reset, pressed once the image is displayed and after any drags and
\* resizes, sets the points to (0,0), (W,0), (W,H), (0,H), W and H being the
\* display width and height of the latest layout computation.
C5_ResetToDisplayCorners ==
    [][(resetPoints /\ image # NoImage) =>
          points' = << Pt(FZero, FZero),
                       Pt(LatestLayout.width, FZero),
                       Pt(LatestLayout.width, LatestLayout.height),
                       Pt(FZero, LatestLayout.height) >>]_vars

\* a state only Reset can produce: the layout effect captured non-empty
\* points, so no layout computation sets them, a point has been dragged, and
\* the points are the corners of the current display
C5_Witness ==
    /\ image # NoImage
    /\ Len(effectPoints) = 4
    /\ dragged
    /\ points = CornersOf(LatestLayout.width, LatestLayout.height)
    /\ points[3] # Pt(FZero, FZero)

\* C6: the corner list of an accepted Confirm is, index by index,
\* (points[i].x * s, points[i].y * s) with s = source image width / displayed
\* width of the current layout.
C6_ConfirmScalesPoints ==
    [][(ConfirmAccepted /\ image # NoImage) =>
          LET s == FDiv(FromInt(image[1]), LatestLayout.width)
              corners == jobs'[Len(jobs')].corners
          IN  /\ Len(jobs') = Len(jobs) + 1
              /\ Len(corners) = Len(points)
              /\ \A i \in 1..Len(points) :
                    corners[i] = Pt(FMul(points[i].x, s), FMul(points[i].y, s))]_vars

\* a dragged corner list has been handed to warpPerspective
C6_Witness ==
    \E j \in JobIds :
        /\ jobs[j].pc = "decoding"
        /\ Len(jobs[j].corners) = 4
        /\ jobs[j].corners[1] # Pt(FZero, FZero)
        /\ jobs[j].corners[3].x # jobs[j].corners[3].y

\* C7: a Confirm with no point dragged in the session emits the source
\* image's own rectangle (0,0), (Iw,0), (Iw,Ih), (0,Ih).
C7_UndraggedConfirmIsSourceRect ==
    [][(ConfirmAccepted /\ ~dragged) =>
          jobs'[Len(jobs')].corners =
              CornersOf(FromInt(SourceSize[1]), FromInt(SourceSize[2]))]_vars

\* C8: once a Confirm has been accepted in a session, no later drag, Reset
\* or resize of that session changes its points.
C8_NoEditAfterConfirm ==
    [][(/\ Confirmed
        /\ Len(points) = 4
        /\ \/ \E pos \in ClientPositions : handleMove(pos)
           \/ resetPoints
           \/ \E c \in ContainerRects : resize(c)) => points' = points]_vars

\* C9: after Cancel, onSave is never invoked for the cancelled session and
\* the worker's image field is not changed on its behalf.
C9_NoOutputAfterCancel ==
    [][\A j \in JobIds :
          (jobs[j].session \in cancelled /\ jobs[j].pc # "saved") =>
              jobs'[j].pc # "saved"]_vars

\* C10: once its image decode has finished, a warpPerspective call has
\* settled: its promise is resolved or rejected, whatever the corner list.
C10_WarpSettles ==
    \A j \in JobIds : jobs[j].pc \in {"timer", "decoding", "saved", "rejected"}

\* C11: when the source image cannot be decoded during resampling, the
\* operation is rejected with no partial state: onSave is not invoked (the
\* workers and the open editor stay as they are), the points are unchanged,
\* the editor that started it is no longer processing, and no retry happens:
\* no job is added and a rejected job stays rejected, so warpPerspective was
\* called once for its Confirm.
C11_DecodeFailureRejects ==
    [][\A j \in JobIds :
          /\ jobs[j].pc = "rejected" => jobs'[j] = jobs[j]
          /\ warpOnerror(j) =>
                /\ jobs'[j].pc = "rejected"
                /\ Len(jobs') = Len(jobs)
                /\ \A k \in JobIds : k # j => jobs'[k] = jobs[k]
                /\ workers' = workers
                /\ editingImage' = editingImage
                /\ points' = points
                /\ (Mounted /\ session = jobs[j].session) => ~isProcessing']_vars

\* the editor whose resampling failed to decode the image is editable again,
\* with the points it had
C11_Witness ==
    \E j \in JobIds :
        /\ jobs[j].pc = "rejected"
        /\ jobs[j].error = "Failed to load image"
        /\ Mounted
        /\ session = jobs[j].session
        /\ ~isProcessing
        /\ Len(points) = 4
        /\ points[3] # Pt(FZero, FZero)

\* C12: when the editor's own image load fails, the editor tells its caller
\* through its interface (onSave, onCancel): the caller's editingImage or
\* workers change in that step.
C12_LoadFailureSurfaced ==
    [][imageOnerror => (editingImage' # editingImage \/ workers' # workers)]_vars

\* C20: the completion of a resampling started in one session leaves a
\* different session that is open at that time, and the workers, alone.
C20_NoCrossSessionEffect ==
    [][\A j \in JobIds :
          (/\ jobs[j].pc = "decoding"
           /\ jobs'[j].pc # "decoding"
           /\ Mounted
           /\ session # jobs[j].session) =>
              (editingImage' = editingImage /\ workers' = workers)]_vars

\* the jobs of session s whose warpPerspective call is still to come or has
\* not settled
Outstanding(s) ==
    { j \in JobIds : jobs[j].session = s /\ jobs[j].pc \in {"timer", "decoding", "threw"} }

\* C21: a Confirm pressed while one is being processed is ignored, a session
\* has at most one warpPerspective call outstanding (or about to be made) at
\* any moment, onSave is invoked at most once per session, and the session
\* of the job that invokes it is over after that step.
C21_OneCallOneSavePerSession ==
    [][/\ (handleProcessAndSave /\ isProcessing) => jobs' = jobs
       /\ \A s \in 1..session' :
             /\ Cardinality({ j \in 1..Len(jobs') :
                               /\ jobs'[j].session = s
                               /\ jobs'[j].pc \in {"timer", "decoding", "threw"} }) <= 1
             /\ Cardinality({ j \in 1..Len(jobs') :
                               jobs'[j].session = s /\ jobs'[j].pc = "saved" }) <= 1
       /\ \A j \in JobIds :
             (jobs[j].pc # "saved" /\ jobs'[j].pc = "saved") =>
                 ~(editingImage' # NoEdit /\ session' = jobs[j].session)]_vars

\* a session whose first resampling was rejected and whose second Confirm is
\* being processed
C21_Witness ==
    /\ Mounted
    /\ isProcessing
    /\ Cardinality(Outstanding(session)) = 1
    /\ \E j \in JobIds : jobs[j].session = session /\ jobs[j].pc = "rejected"

\* C22: the drag state is 'none' or one index in 0..3 of a populated Corner
\* Set; pointer-down on the handle of point i makes it i; pointer-up or
\* pointer-leave makes it 'none' and changes no point.
C22_OneDragAtATime ==
    [][/\ draggingPointIndex' \in {NoDrag} \cup 0..3
       /\ draggingPointIndex' # NoDrag => Len(points') = 4
       /\ \A index \in 0..3 :
             handleMouseDown(index) => draggingPointIndex' = index
       /\ handleEnd => (draggingPointIndex' = NoDrag /\ points' = points)]_vars

\* a drag of the third point has moved it and has ended
C22_Witness ==
    /\ Mounted
    /\ dragged
    /\ draggingPointIndex = NoDrag
    /\ Len(points) = 4
    /\ points[3] # CornersOf(displayedImgDims.width, displayedImgDims.height)[3]

\* C23: a pointer-move at (pointerX, pointerY) while index i is dragged sets
\* points[i] to (pointerX - containerLeft - displayLeft, pointerY -
\* containerTop - displayTop), whether or not that lies inside the display.
C23_MoveStoresPointerPosition ==
    [][\A pos \in ClientPositions :
          (handleMove(pos) /\ draggingPointIndex # NoDrag) =>
              /\ points'[draggingPointIndex + 1].x =
                    FSub(FSub(FromInt(pos[1]), FromInt(container.left)),
                         displayedImgDims.left)
              /\ points'[draggingPointIndex + 1].y =
                    FSub(FSub(FromInt(pos[2]), FromInt(container.top)),
                         displayedImgDims.top)]_vars

\* a dragged point left of the display and one below it
C23_Witness ==
    /\ Mounted
    /\ dragged
    /\ Len(points) = 4
    /\ \E k \in 1..4 : FLt(points[k].x, FZero)
    /\ \E k \in 1..4 : FGt(points[k].y, displayedImgDims.height)

\* C28: the corner list and the source of a resampling are the scaled points
\* and the image of the instant its Confirm was accepted; no later step
\* (drag, Reset, resize, timer, decode) changes them, and the image its
\* onSave delivers is the resampling of that source with those corners.
C28_CornersAreThoseOfConfirm ==
    [][/\ ConfirmAccepted =>
             /\ jobs'[Len(jobs')].imageSrc = editingImage.src
             /\ jobs'[Len(jobs')].corners =
                   [i \in 1..Len(points) |->
                      Pt(FMul(points[i].x, displayedImgDims.scale),
                         FMul(points[i].y, displayedImgDims.scale))]
       /\ \A j \in JobIds :
             /\ jobs'[j].corners = jobs[j].corners
             /\ jobs'[j].imageSrc = jobs[j].imageSrc
             /\ (jobs[j].pc # "saved" /\ jobs'[j].pc = "saved") =>
                   workers'[jobs[j].workerId][jobs[j].field] =
                       Append(jobs[j].imageSrc, jobs[j].corners)]_vars

\* a call in progress whose session's points have been dragged away from the
\* corners it was given
C28_Witness ==
    \E j \in JobIds :
        /\ jobs[j].pc = "decoding"
        /\ Mounted
        /\ jobs[j].session = session
        /\ dragged
        /\ Len(jobs[j].corners) = 4
        /\ \E i \in 1..4 :
              jobs[j].corners[i] # Pt(FMul(points[i].x, displayedImgDims.scale),
                                      FMul(points[i].y, displayedImgDims.scale))

\* C26: when getContext('2d') returns null for the destination or the source
\* canvas, the call is rejected and does not resolve (onSave is not invoked:
\* the workers and the open editor stay as they are), and it is not retried:
\* no job is added and the rejected job stays as it is.
C26_NoContextRejects ==
    [][\A j \in JobIds :
          /\ jobs[j].error = "Canvas context error" => jobs'[j] = jobs[j]
          /\ (warpOnload(j, FALSE) /\ Len(jobs[j].corners) = 4) =>
                /\ jobs'[j].pc = "rejected"
                /\ Len(jobs') = Len(jobs)
                /\ \A k \in JobIds : k # j => jobs'[k] = jobs[k]
                /\ workers' = workers
                /\ editingImage' = editingImage]_vars

\* a call on a list of four corners was rejected for want of a context, and
\* the stored image is still the photo
C26_Witness ==
    \E j \in JobIds :
        /\ jobs[j].pc = "rejected"
        /\ jobs[j].error = "Canvas context error"
        /\ Len(jobs[j].corners) = 4
        /\ jobs[j].corners[3] # jobs[j].corners[1]
        /\ workers[jobs[j].workerId][jobs[j].field] = Photo

\* available width and height of the container, inside the padding
AvailWidth == container.clientWidth - padding * 2
AvailHeight == container.clientHeight - padding * 2

\* x * i and y * j as integers over one unit, for numbers x, y and integers i, j
Scaled(x, y, i) == Aligned(x, y) * i

\* |x * i - y * j| is at most 3 * 2^-MantBits of x * i (two roundings)
WithinRounding(x, i, y, j) ==
    LET a == Scaled(x, y, i)
        b == Scaled(y, x, j)
        d == IF a > b THEN a - b ELSE b - a
    IN  d * Pow2(MantBits) <= 3 * a

\* x is at most n, or above it by rounding only
AtMostWithinRounding(x, n) ==
    Scaled(x, FromInt(n), Pow2(MantBits)) <=
        Scaled(FromInt(n), x, Pow2(MantBits) + 3)

LayoutDone == decode = "ok" /\ image # NoImage

\* C19 as stated: after the layout computation, (a) displayWidth * Ih =
\* displayHeight * Iw, (b) displayWidth <= Cw - 80 and displayHeight <=
\* Ch - 80, (c) displayWidth = Cw - 80 or displayHeight = Ch - 80.
C19_LayoutFitsExactly ==
    LayoutDone =>
        /\ Scaled(displayedImgDims.width, displayedImgDims.height, image[2]) =
              Scaled(displayedImgDims.height, displayedImgDims.width, image[1])
        /\ ~FGt(displayedImgDims.width, FromInt(AvailWidth))
        /\ ~FGt(displayedImgDims.height, FromInt(AvailHeight))
        /\ \/ displayedImgDims.width = FromInt(AvailWidth)
           \/ displayedImgDims.height = FromInt(AvailHeight)

\* C19 amended: (a) and (b) hold up to the rounding of the two floating-point
\* operations that produce the computed side (relative error at most 3 units
\* of 2^-MantBits), and (c) holds exactly.
C19_LayoutFitsWithinRounding ==
    LayoutDone =>
        /\ WithinRounding(displayedImgDims.width, image[2],
                          displayedImgDims.height, image[1])
        /\ AtMostWithinRounding(displayedImgDims.width, AvailWidth)
        /\ AtMostWithinRounding(displayedImgDims.height, AvailHeight)
        /\ \/ displayedImgDims.width = FromInt(AvailWidth)
           \/ displayedImgDims.height = FromInt(AvailHeight)

\* a layout whose computed height is not the exact quotient
C19_Witness ==
    /\ LayoutDone
    /\ displayedImgDims.width = FromInt(AvailWidth)
    /\ FLt(displayedImgDims.height, FromInt(AvailHeight))
    /\ Scaled(displayedImgDims.width, displayedImgDims.height, image[2]) #
          Scaled(displayedImgDims.height, displayedImgDims.width, image[1])

----------------------------------------------------------------------------
(* Properties of one warpPerspective call (WarpSpec) *)

\* the corners of the call, which are integers in WarpSpec: <<x, y>>
Corner(i) == << FFloor(warp.corners[i].x), FFloor(warp.corners[i].y) >>

\* squared Euclidean distance of corners i and k
Dist2(i, k) ==
    (Corner(i)[1] - Corner(k)[1]) * (Corner(i)[1] - Corner(k)[1]) +
    (Corner(i)[2] - Corner(k)[2]) * (Corner(i)[2] - Corner(k)[2])

Max(a, b) == IF a > b THEN a ELSE b

\* n = floor(sqrt(m)), and n = round(sqrt(m))
IsFloorSqrt(n, m) == n >= 0 /\ n * n <= m /\ m < (n + 1) * (n + 1)
IsRoundSqrt(n, m) ==
    n >= 0 /\ (2 * n - 1) * (2 * n - 1) <= 4 * m /\ 4 * m < (2 * n + 1) * (2 * n + 1)

Resolved == warp.pc = "resolved"

\* C13: destination width = floor(max(|TR-TL|, |BR-BL|)) and destination
\* height = floor(max(|BL-TL|, |BR-TR|)), with Euclidean distances; it is the
\* size of the result of a call that resolves.
C13_DestSizeIsFloorOfMax ==
    warp.pc # "none" =>
        /\ IsFloorSqrt(DestWidth(warp.corners), Max(Dist2(2, 1), Dist2(3, 4)))
        /\ IsFloorSqrt(DestHeight(warp.corners), Max(Dist2(4, 1), Dist2(3, 2)))
        /\ Resolved => /\ warp.width = DestWidth(warp.corners)
                       /\ warp.height = DestHeight(warp.corners)

\* a resolved call whose top side is longer than the bottom one, whose left
\* side is longer than the right one, and whose longer sides are no integers
C13_Witness ==
    /\ Resolved
    /\ Dist2(2, 1) > Dist2(3, 4)
    /\ Dist2(4, 1) > Dist2(3, 2)
    /\ warp.width * warp.width < Dist2(2, 1)
    /\ warp.height * warp.height < Dist2(4, 1)

\* twice the signed area of corners i, j, k
Cross(i, j, k) ==
    (Corner(j)[1] - Corner(i)[1]) * (Corner(k)[2] - Corner(i)[2]) -
    (Corner(j)[2] - Corner(i)[2]) * (Corner(k)[1] - Corner(i)[1])

\* TL, TR, BR, BL are the corners of a convex quadrilateral, none degenerate
Convex ==
    Cross(1, 2, 3) > 0 /\ Cross(2, 3, 4) > 0 /\ Cross(3, 4, 1) > 0 /\ Cross(4, 1, 2) > 0

\* C14: for a convex, non-degenerate quadrilateral, destination width =
\* round(max(|TL-TR|, |BL-BR|)), destination height = round(max(|TL-BL|,
\* |TR-BR|)), and both are > 0.
C14_DestSizeIsRoundOfMax ==
    (Resolved /\ Convex) =>
        /\ IsRoundSqrt(warp.width, Max(Dist2(2, 1), Dist2(3, 4)))
        /\ IsRoundSqrt(warp.height, Max(Dist2(4, 1), Dist2(3, 2)))
        /\ warp.width > 0
        /\ warp.height > 0

\* no entry of h is non-finite: no pivot of the elimination was zero
NonSingular == \A i \in 1..Len(warp.h) : IsFinite(warp.h[i])

\* h maps canonical destination corner i to source corner i
MapsCorner(i) ==
    LET canonical == << <<0, 0>>, <<warp.width, 0>>,
                        <<warp.width, warp.height>>, <<0, warp.height>> >>
    IN  SourcePosition(warp.h, canonical[i][1], canonical[i][2]) =
            << QInt(Corner(i)[1]), QInt(Corner(i)[2]) >>

NoThreeCollinear ==
    Cross(1, 2, 3) # 0 /\ Cross(2, 3, 4) # 0 /\ Cross(3, 4, 1) # 0 /\ Cross(4, 1, 2) # 0

\* C15 as stated: whenever the 8x8 system is non-singular, h has 9 entries,
\* h[8] = 1, and h maps each canonical destination corner to the source
\* corner of the same index.
C15_HomographyMapsCorners ==
    (Resolved /\ NonSingular) =>
        /\ Len(warp.h) = 9
        /\ warp.h[9] = QInt(1)
        /\ \A i \in 1..4 : MapsCorner(i)

\* C15 amended: the same, for the corner lists that make the system
\* non-singular and have no three corners on one line (the equalities being
\* those of exact arithmetic).
C15_HomographyMapsCornersOfQuad ==
    (Resolved /\ NonSingular /\ NoThreeCollinear) =>
        /\ Len(warp.h) = 9
        /\ warp.h[9] = QInt(1)
        /\ \A i \in 1..4 : MapsCorner(i)

\* a resolved call on a quadrilateral in perspective (h[6] or h[7] not zero)
C15_Witness ==
    /\ Resolved
    /\ NonSingular
    /\ NoThreeCollinear
    /\ warp.h[7] # QInt(0)
    /\ warp.h[8] # QInt(0)

\* the source position of destination pixel (x, y), and the four source
\* pixels around it weighted by the fractional offsets
SrcPos(x, y) == SourcePosition(warp.h, x, y)
Bilinear(pos, c) ==
    LET x0 == QFloor(pos[1])
        y0 == QFloor(pos[2])
        fx == QSub(pos[1], QInt(x0))
        fy == QSub(pos[2], QInt(y0))
        gx == QSub(QInt(1), fx)
        gy == QSub(QInt(1), fy)
    IN  QAdd(QAdd(QMul(QMul(gx, gy), QInt(sData(x0, y0)[c])),
                  QMul(QMul(fx, gy), QInt(sData(x0 + 1, y0)[c]))),
             QAdd(QMul(QMul(gx, fy), QInt(sData(x0, y0 + 1)[c])),
                  QMul(QMul(fx, fy), QInt(sData(x0 + 1, y0 + 1)[c]))))

\* the position is a finite one with 0 <= srcX < Iw - 1 and 0 <= srcY < Ih - 1
Inside(pos) ==
    /\ IsFinite(pos[1]) /\ IsFinite(pos[2])
    /\ pos[1][1] >= 0 /\ pos[1][1] < (warp.img[1] - 1) * pos[1][2]
    /\ pos[2][1] >= 0 /\ pos[2][1] < (warp.img[2] - 1) * pos[2][2]

\* C16: the result has one pixel for every (x, y) with 0 <= x < W and
\* 0 <= y < H; a pixel whose source position is inside the bounds has the
\* bilinear interpolation of the 4 neighbouring source pixels as RGB (as
\* stored in a byte) and alpha 255, and any other pixel is <<0, 0, 0, 0>>.
C16_PixelsInterpolatedOrTransparent ==
    Resolved =>
        /\ DOMAIN warp.dData = 1..warp.height
        /\ \A y \in 1..warp.height :
              /\ DOMAIN warp.dData[y] = 1..warp.width
              /\ \A x \in 1..warp.width :
                    IF Inside(SrcPos(x - 1, y - 1))
                    THEN warp.dData[y][x] =
                           << ToUint8Clamped(Bilinear(SrcPos(x - 1, y - 1), 1)),
                              ToUint8Clamped(Bilinear(SrcPos(x - 1, y - 1), 2)),
                              ToUint8Clamped(Bilinear(SrcPos(x - 1, y - 1), 3)),
                              255 >>
                    ELSE warp.dData[y][x] = << 0, 0, 0, 0 >>

\* a result with a transparent pixel and with a pixel interpolated between
\* source pixels in both directions
C16_Witness ==
    /\ Resolved
    /\ \E y \in 1..warp.height, x \in 1..warp.width :
          warp.dData[y][x] = << 0, 0, 0, 0 >>
    /\ \E y \in 1..warp.height, x \in 1..warp.width :
          /\ warp.dData[y][x][4] = 255
          /\ SrcPos(x - 1, y - 1)[1][2] > 1
          /\ SrcPos(x - 1, y - 1)[2][2] > 1

\* the corners are the source image's own rectangle
IdentityCase ==
    /\ Corner(1) = <<0, 0>>
    /\ Corner(2) = <<warp.img[1], 0>>
    /\ Corner(3) = <<warp.img[1], warp.img[2]>>
    /\ Corner(4) = <<0, warp.img[2]>>

\* C17: in the identity case the output is Iw x Ih and every output pixel
\* (x, y) is opaque and equal to source pixel (x, y).
C17_IdentityCopiesSource ==
    (Resolved /\ IdentityCase) =>
        /\ warp.width = warp.img[1]
        /\ warp.height = warp.img[2]
        /\ \A y \in 1..warp.height, x \in 1..warp.width :
              warp.dData[y][x] = sData(x - 1, y - 1)

\* the corners are an axis-aligned rectangle TL = (x0, y0), BR = (x1, y1)
\* with 0 <= x0 < x1 <= Iw - 1 and 0 <= y0 < y1 <= Ih - 1
InsetCase ==
    /\ Corner(2) = <<Corner(3)[1], Corner(1)[2]>>
    /\ Corner(4) = <<Corner(1)[1], Corner(3)[2]>>
    /\ 0 <= Corner(1)[1] /\ Corner(1)[1] < Corner(3)[1]
    /\ Corner(3)[1] <= warp.img[1] - 1
    /\ 0 <= Corner(1)[2] /\ Corner(1)[2] < Corner(3)[2]
    /\ Corner(3)[2] <= warp.img[2] - 1

\* C18: for an axis-aligned inset rectangle with integer corners inside the
\* source image, the destination is (x1 - x0) x (y1 - y0) and every output
\* pixel (i, j) equals source pixel (x0 + i, y0 + j).
C18_InsetCopiesSource ==
    (Resolved /\ InsetCase) =>
        /\ warp.width = Corner(3)[1] - Corner(1)[1]
        /\ warp.height = Corner(3)[2] - Corner(1)[2]
        /\ DOMAIN warp.dData = 1..warp.height
        /\ \A y \in 1..warp.height :
              /\ DOMAIN warp.dData[y] = 1..warp.width
              /\ \A x \in 1..warp.width :
                    warp.dData[y][x] =
                        sData(Corner(1)[1] + x - 1, Corner(1)[2] + y - 1)

\* the result of a rectangle inset on every side, at least two pixels high
C18_Witness ==
    /\ Resolved
    /\ InsetCase
    /\ Corner(1)[1] > 0
    /\ Corner(1)[2] > 0
    /\ warp.height >= 2
    /\ warp.dData[warp.height][warp.width] =
          sData(Corner(3)[1] - 1, Corner(3)[2] - 1)

\* both coordinates of the position are integers
IntegerPosition(pos) ==
    IsFinite(pos[1]) /\ IsFinite(pos[2]) /\ pos[1][2] = 1 /\ pos[2][2] = 1

\* C25: a destination pixel whose source position passes the bounds check
\* and has two integer coordinates has the R, G, B of the source pixel at
\* that position, unblended, and alpha 255.
C25_IntegerPositionCopiesPixel ==
    Resolved =>
        \A y \in 1..warp.height, x \in 1..warp.width :
            (Inside(SrcPos(x - 1, y - 1)) /\ IntegerPosition(SrcPos(x - 1, y - 1))) =>
                warp.dData[y][x] =
                    << sData(SrcPos(x - 1, y - 1)[1][1], SrcPos(x - 1, y - 1)[2][1])[1],
                       sData(SrcPos(x - 1, y - 1)[1][1], SrcPos(x - 1, y - 1)[2][1])[2],
                       sData(SrcPos(x - 1, y - 1)[1][1], SrcPos(x - 1, y - 1)[2][1])[3],
                       255 >>

\* the result of a quadrilateral that is no rectangle, with a pixel at an
\* integer source position off the first row and column and a blended pixel
C25_Witness ==
    /\ Resolved
    /\ ~InsetCase
    /\ Corner(1)[1] > 0
    /\ Corner(1)[2] > 0
    /\ \E y \in 1..warp.height, x \in 1..warp.width :
          /\ Inside(SrcPos(x - 1, y - 1))
          /\ IntegerPosition(SrcPos(x - 1, y - 1))
    /\ \E y \in 1..warp.height, x \in 1..warp.width :
          /\ Inside(SrcPos(x - 1, y - 1))
          /\ ~IntegerPosition(SrcPos(x - 1, y - 1))

\* the byte indices i .. i + 3 of a pixel lie in the data of a w x h image
InData(i, w, h) == 0 <= i /\ i + 3 < w * h * 4

\* the pixel loop wrote destination pixel (x, y)
Written(x, y) == warp.dData[y + 1][x + 1][4] = 255

\* C27: a destination pixel that the loop writes has a finite source
\* position whose four neighbours x0 < x1, y0 < y1 lie inside the source
\* image, the indices read lie in the source data and the indices written
\* in the destination data; a pixel whose w is zero or non-finite is neither
\* read for nor written.
C27_SamplesAndIndicesInRange ==
    Resolved =>
        \A y \in 0..(warp.height - 1), x \in 0..(warp.width - 1) :
            /\ Written(x, y) =>
                  /\ IsFinite(SrcPos(x, y)[1]) /\ IsFinite(SrcPos(x, y)[2])
                  /\ 0 <= QFloor(SrcPos(x, y)[1])
                  /\ QFloor(SrcPos(x, y)[1]) + 1 <= warp.img[1] - 1
                  /\ 0 <= QFloor(SrcPos(x, y)[2])
                  /\ QFloor(SrcPos(x, y)[2]) + 1 <= warp.img[2] - 1
                  /\ \A dx \in {0, 1}, dy \in {0, 1} :
                        InData(PixelIdx(warp.img[1], QFloor(SrcPos(x, y)[1]) + dx,
                                        QFloor(SrcPos(x, y)[2]) + dy),
                               warp.img[1], warp.img[2])
                  /\ InData(PixelIdx(warp.width, x, y), warp.width, warp.height)
            /\ (~IsFinite(SrcPos(x, y)[1]) \/ ~IsFinite(SrcPos(x, y)[2])) =>
                  warp.dData[y + 1][x + 1] = <<0, 0, 0, 0>>

\* a result with a written pixel whose right and lower neighbours are the
\* last column and the last row of the source, and an unwritten pixel
C27_Witness ==
    /\ Resolved
    /\ \E y \in 0..(warp.height - 1), x \in 0..(warp.width - 1) :
          /\ Written(x, y)
          /\ QFloor(SrcPos(x, y)[1]) + 1 = warp.img[1] - 1
          /\ QFloor(SrcPos(x, y)[2]) + 1 = warp.img[2] - 1
    /\ \E y \in 0..(warp.height - 1), x \in 0..(warp.width - 1) : ~Written(x, y)

\* a result with a pixel whose source position is not finite
C27_NonFiniteWitness ==
    /\ Resolved
    /\ \E y \in 0..(warp.height - 1), x \in 0..(warp.width - 1) :
          ~IsFinite(SrcPos(x, y)[1])

\* no row from i on has a larger absolute value in column i than row p, and
\* every row from i on before row p has a smaller one
FirstLargest(a, i, p) ==
    /\ \A j \in i..8 : ~QLt(QAbs(a[p][i]), QAbs(a[j][i]))
    /\ \A j \in i..(p - 1) : QLt(QAbs(a[j][i]), QAbs(a[p][i]))

\* s with its entries i and p exchanged, and no other entry changed
ExchangeOf(s, t, i, p) ==
    /\ t[i] = s[p]
    /\ t[p] = s[i]
    /\ \A j \in (1..8) \ {i, p} : t[j] = s[j]

\* C24: the exchange of elimination step i puts at position i the first row,
\* among the rows from i on, whose absolute value in column i is the
\* largest, and exchanges the same two entries of b.
C24_PivotIsFirstLargestRow ==
    [][(warp.pc = "pivoting" /\ warp'.pc = "reducing") =>
         \E p \in warp.i..8 :
            /\ FirstLargest(warp.a, warp.i, p)
            /\ ExchangeOf(warp.a, warp'.a, warp.i, p)
            /\ ExchangeOf(warp.b, warp'.b, warp.i, p)]_vars

\* an exchange with a lower row that has just happened, a yet lower row
\* having the same absolute value in the column
C24_Witness ==
    /\ warp.pc = "reducing"
    /\ warp.pivot > warp.i
    /\ warp.a[warp.i] # warp.a[warp.pivot]
    /\ warp.b[warp.i] # warp.b[warp.pivot]
    /\ \E j \in (warp.pivot + 1)..8 :
          /\ IsFinite(warp.a[j][warp.i])
          /\ QAbs(warp.a[j][warp.i]) = QAbs(warp.a[warp.i][warp.i])

\* the matrix of the iterations is the matrix of getHomographyMatrix
SolveAgrees ==
    warp.pc = "returned" => warp.h = getHomographyMatrix(warp.dstPts, warp.corners)

\* C29: a call of extractWorkerInfo makes at most 7 requests and returns, and
\* what it returns is an array; without an API key it makes no request and
\* returns the empty array.
C29_ReturnsArrayWithinSevenAttempts ==
    /\ [](/\ extract.calls <= 7
          /\ extract.pc = "returned" => extract.result.type = "array"
          /\ ~extract.apiKey =>
                /\ extract.calls = 0
                /\ extract.pc = "returned" => extract.result = Arr(<<>>))
    /\ <>(extract.pc = "returned")

\* a call that has returned after seven requests, and so after six waits
C29_Witness ==
    /\ extract.pc = "returned"
    /\ extract.calls = 7
    /\ Len(extract.waits) = 6
    /\ extract.result.type = "array"

\* a call without an API key that has returned
C29_NoKeyWitness ==
    /\ extract.pc = "returned"
    /\ ~extract.apiKey

\* C30: the call waits, and then makes one more request, only after an error
\* of quota, the wait before request k + 2 being 2000 * 2^k ms; after any
\* other error, and after an error of quota of the 7th request, it has
\* returned the empty array.
C30_RetriesOnlyAfterQuotaError ==
    /\ extract.pc = "waiting" =>
          /\ extract.error.kind = "quota"
          /\ extract.attempt \in 0..5
    /\ extract.calls > 0 => Len(extract.waits) \in {extract.calls - 1, extract.calls}
    /\ extract.pc = "racing" => Len(extract.waits) = extract.calls - 1
    /\ \A k \in 0..5 : k < Len(extract.waits) => extract.waits[k + 1] = 2000 * (2 ^ k)
    /\ extract.error.kind \in {"api", "timeout", "parse"} =>
          /\ extract.pc = "returned"
          /\ extract.result = Arr(<<>>)
    /\ (extract.error.kind = "quota" /\ extract.calls = 7 /\ Len(extract.waits) = 6
          /\ extract.pc # "racing") =>
          /\ extract.pc = "returned"
          /\ extract.result = Arr(<<>>)

\* the same with the classification of the catch block for `error of quota`
RetriesOnlyAfterClassifiedError ==
    /\ extract.pc = "waiting" =>
          /\ isQuotaError(extract.error)
          /\ extract.attempt \in 0..5
    /\ extract.calls > 0 => Len(extract.waits) \in {extract.calls - 1, extract.calls}
    /\ extract.pc = "racing" => Len(extract.waits) = extract.calls - 1
    /\ \A k \in 0..5 : k < Len(extract.waits) => extract.waits[k + 1] = 2000 * (2 ^ k)
    /\ (extract.error # NoError /\ ~isQuotaError(extract.error)) =>
          /\ extract.pc = "returned"
          /\ extract.result = Arr(<<>>)

\* a wait that follows an answer of the API that was no JSON
ParseErrorRetried ==
    /\ extract.pc = "waiting"
    /\ extract.error.kind = "parse"

====
